---- MODULE Spec2Model ----
(***************************************************************************)
(* Model of package.py: the Thunderstore mod packaging script.             *)
(*                                                                         *)
(* Text is modelled as a sequence of tokens (a token is a string that the  *)
(* script never looks inside), a README as a sequence of lines, a file     *)
(* name as a sequence of tokens and a path as a sequence of names.         *)
(***************************************************************************)
EXTENDS Integers, Sequences, FiniteSets, TLC

VARIABLES
    csproj,      \* the project definition file <PROJECT_NAME>.csproj
    files,       \* the files under PROJECT_ROOT outside dist/: path -> file
    remote,      \* what `git remote get-url origin` does when it is run
    dist_exists, \* whether PROJECT_ROOT/dist exists
    zips,        \* dist/*.zip: zip file name -> archive
    temps,       \* dist/temp_package_<timestamp>: timestamp -> directory
    pc,          \* position of the single flow of control
    exit_code,   \* exit code of the process, NoCode while it runs
    packager,    \* the fields of the FilePackager instance
    file_specs,  \* the list prepare_file_spec returned
    idx,         \* position of the loop of copy_files in file_specs
    walk,        \* names os.walk has still to hand to zip_files
    trace,       \* history: the file-system effects of this run, in order
    fault,       \* history: the I/O exception raised in this run
    run,         \* history: number of the current run
    start,       \* history: the manifest and the archive when the run began
    prev,        \* history: how the previous run ended
    ret          \* return value of the function under test

vars == <<csproj, files, remote, dist_exists, zips, temps, pc, exit_code,
          packager, file_specs, idx, walk, trace, fault, run, start, prev, ret>>

envVars == <<csproj, files, remote>>
distVars == <<dist_exists, zips, temps>>
histVars == <<trace, fault, run, start, prev>>

----------------------------------------------------------------------------
(* Bounds *)

MaxLines == 5     \* longest README, in lines
MaxUrlLen == 3    \* longest stdout of git, in tokens
MaxRuns == 2      \* runs of the script in succession

----------------------------------------------------------------------------
(* Text *)

Whitespace == {" ", "\n"}

RECURSIVE LStrip(_)
LStrip(s) ==
    IF s # <<>> /\ Head(s) \in Whitespace THEN LStrip(Tail(s)) ELSE s

RECURSIVE RStrip(_)
RStrip(s) ==
    IF s # <<>> /\ s[Len(s)] \in Whitespace
    THEN RStrip(SubSeq(s, 1, Len(s) - 1)) ELSE s

\* str.strip()
Strip(s) == RStrip(LStrip(s))

\* str.startswith(prefix)
StartsWith(s, prefix) ==
    Len(s) >= Len(prefix) /\ SubSeq(s, 1, Len(prefix)) = prefix

\* str.replace(old, new): every non-overlapping occurrence, left to right
RECURSIVE Replace(_, _, _)
Replace(s, old, new) ==
    IF s = <<>> THEN <<>>
    ELSE IF StartsWith(s, old)
         THEN new \o Replace(SubSeq(s, Len(old) + 1, Len(s)), old, new)
         ELSE <<Head(s)>> \o Replace(Tail(s), old, new)

\* " ".join(parts)
RECURSIVE Join(_)
Join(parts) ==
    IF parts = <<>> THEN <<>>
    ELSE IF Len(parts) = 1 THEN parts[1]
         ELSE parts[1] \o <<" ">> \o Join(Tail(parts))

RECURSIVE SeqsUpTo(_, _)
SeqsUpTo(S, n) ==
    IF n = 0 THEN {<<>>}
    ELSE LET shorter == SeqsUpTo(S, n - 1)
         IN  shorter \cup {Append(s, x) : s \in shorter, x \in S}

----------------------------------------------------------------------------
(* Files *)

NoFile == [kind |-> "none"]
Binary(bytes) == [kind |-> "binary", bytes |-> bytes]
Text(lines) == [kind |-> "text", lines |-> lines]
Json(obj) == [kind |-> "json", obj |-> obj]

NoValue == [kind |-> "novalue"]
NoCode == -1

\* the last component of a path
Name(path) == path[Len(path)]

PROJECT_ROOT == <<>>
DLL_SOURCE_FOLDER == << <<"bin">>, <<"Debug">>, <<"net472">> >>

ManifestName == <<"manifest", ".json">>
IconName == <<"icon", ".png">>
ReadmeName == <<"README", ".md">>
ChangelogName == <<"CHANGELOG", ".md">>

ManifestPath == PROJECT_ROOT \o <<ManifestName>>
IconPath == PROJECT_ROOT \o << <<"img">>, IconName >>
ReadmePath == PROJECT_ROOT \o <<ReadmeName>>
ChangelogPath == PROJECT_ROOT \o <<ChangelogName>>

FileSpec(path, required, rename_to) ==
    [path |-> path, required |-> required, rename_to |-> rename_to]

None == <<>>

DEFAULT_FILESPEC ==
    << FileSpec(ManifestPath, TRUE, None),
       FileSpec(IconPath, TRUE, IconName),
       FileSpec(ReadmePath, TRUE, None),
       FileSpec(ChangelogPath, FALSE, None) >>

----------------------------------------------------------------------------
(* get_description *)

IsSummaryWord(tok) == tok \in {"Summary", "summary", "SUMMARY"}

RECURSIVE SkipRun(_, _)
SkipRun(s, S) == IF s # <<>> /\ Head(s) \in S THEN SkipRun(Tail(s), S) ELSE s

\* re.compile(r"^#+\s*Summary", re.IGNORECASE).match(line)
SummaryHeaderMatch(line) ==
    /\ line # <<>>
    /\ Head(line) = "#"
    /\ LET rest == SkipRun(SkipRun(line, {"#"}), Whitespace)
       IN  rest # <<>> /\ IsSummaryWord(Head(rest))

\* the loop over the lines of README.md, from line i on
RECURSIVE ScanSummary(_, _, _, _)
ScanSummary(lines, i, in_summary_section, summary_content) ==
    IF i > Len(lines) THEN summary_content
    ELSE LET line == lines[i] IN
         IF SummaryHeaderMatch(line)
         THEN ScanSummary(lines, i + 1, TRUE, summary_content)
         ELSE IF StartsWith(line, <<"#">>) /\ in_summary_section
         THEN summary_content
         ELSE IF in_summary_section
         THEN LET stripped_line == Strip(line)
              IN  ScanSummary(lines, i + 1, in_summary_section,
                      IF stripped_line # <<>>
                      THEN Append(summary_content, stripped_line)
                      ELSE summary_content)
         ELSE ScanSummary(lines, i + 1, in_summary_section, summary_content)

get_description(readme) ==
    IF readme.kind = "text"
    THEN Join(ScanSummary(readme.lines, 1, FALSE, <<>>))
    ELSE <<>>

----------------------------------------------------------------------------
(* get_github_url *)

HttpsPrefix == <<"https://github.com/">>
SshPrefix == <<"git@github.com:">>

GitMissing == [kind |-> "not_found"]
GitRan(returncode, stdout) ==
    [kind |-> "ran", returncode |-> returncode, stdout |-> stdout]

get_github_url(process) ==
    IF process.kind = "ran" /\ process.returncode = 0
    THEN LET result == Strip(process.stdout) IN
         IF StartsWith(result, HttpsPrefix) THEN result
         ELSE IF StartsWith(result, SshPrefix)
              THEN Replace(result, SshPrefix, HttpsPrefix)
              ELSE <<>>
    ELSE <<>>

----------------------------------------------------------------------------
(* The inputs the runs are checked on *)

ReadmeLines ==
    { <<"#", "#", " ", "Summary">>,
      <<"#", "summary">>,
      <<"#", "#", " ", "Next">>,
      <<"Line one.">>,
      <<" ", "Line two.", " ", "\n">>,
      <<"\n">> }

Readmes == {NoFile} \cup {Text(d) : d \in SeqsUpTo(ReadmeLines, MaxLines)}

UrlTokens ==
    {"git@github.com:", "https://github.com/", "https://gitlab.com/",
     "org/repo.git", "\n"}

Remotes ==
    {GitMissing} \cup
    {GitRan(rc, out) : rc \in {0, 128}, out \in SeqsUpTo(UrlTokens, MaxUrlLen)}

AssemblyNames == {"LoadIntoLevel"}

dll_name_of(assembly_name) == <<assembly_name, ".dll">>
dll_path_of(assembly_name) ==
    PROJECT_ROOT \o DLL_SOURCE_FOLDER \o <<dll_name_of(assembly_name)>>

Paths ==
    {ManifestPath, IconPath, ReadmePath, ChangelogPath}
        \cup {dll_path_of(a) : a \in AssemblyNames}

NoFiles == [p \in Paths |-> NoFile]

\* an element of the .csproj: absent, or present with its text
Absent == [kind |-> "absent"]
Element(text) == [kind |-> "element", text |-> text]

NoCsproj == [kind |-> "missing"]
Malformed == [kind |-> "malformed"]
Xml(assembly_name, version, product) ==
    [kind |-> "xml", AssemblyName |-> assembly_name, Version |-> version,
     Product |-> product]

Fields == {"AssemblyName", "Version", "Product"}
ProductNames == {"LoadIntoLevel"}
VersionNumbers == {"1.0.0"}

GoodCsprojs ==
    {Xml(Element(<<a>>), Element(<<v>>), Element(<<p>>)) :
        a \in AssemblyNames, v \in VersionNumbers, p \in ProductNames}

\* a .csproj with one field absent or empty
BadFieldCsprojs ==
    {[c EXCEPT ![f] = e] :
        c \in GoodCsprojs, f \in Fields, e \in {Absent, Element(<<>>)}}

Csprojs == {NoCsproj, Malformed} \cup GoodCsprojs \cup BadFieldCsprojs

zip_file_name_of(product, version) == <<product, "-", version, ".zip">>

ZipNames ==
    {zip_file_name_of(p, v) : p \in ProductNames, v \in VersionNumbers}

StaleName == <<"stale", ".txt">>

\* the names a file of a directory or an entry of an archive can have
EntryNames ==
    {ManifestName, IconName, ReadmeName, ChangelogName, StaleName}
        \cup {dll_name_of(a) : a \in AssemblyNames}

NoEntries == [n \in EntryNames |-> NoFile]

NoDir == [kind |-> "nodir"]
Dir(entries) == [kind |-> "dir", entries |-> entries]
Zip(entries, closed) == [kind |-> "zip", entries |-> entries, closed |-> closed]

StaleEntries == [NoEntries EXCEPT ![StaleName] = Binary("stale")]

Stamps == {"20240101000000", "20240101000001"}

NoZips == [z \in ZipNames |-> NoFile]
NoTemps == [t \in Stamps |-> NoDir]

StaleManifest ==
    Json([name |-> <<"Old">>, description |-> <<>>,
          version_number |-> <<"0.9.0">>, website_url |-> <<>>,
          dependencies |-> <<"BepInEx-BepInExPack-5.4.2100">>])

PipelineReadmes ==
    { NoFile,
      Text(<< <<"#", "#", " ", "Summary">>, <<"Line one.">>, <<"\n">>,
              <<" ", "Line two.", " ", "\n">>, <<"#", "#", " ", "Next">> >>),
      Text(<< <<"#", "#", " ", "Next">>, <<"Line one.">> >>) }

PipelineRemotes ==
    { GitMissing,
      GitRan(128, <<>>),
      GitRan(0, <<"https://github.com/", "org/repo.git", "\n">>),
      GitRan(0, <<"git@github.com:", "org/repo.git", "\n">>),
      GitRan(0, <<"https://gitlab.com/", "org/repo.git", "\n">>) }

\* the state of everything but the input of the function under test
Idle ==
    /\ csproj = NoCsproj
    /\ dist_exists = FALSE
    /\ zips = NoZips
    /\ temps = NoTemps
    /\ exit_code = NoCode
    /\ packager = NoValue
    /\ file_specs = <<>>
    /\ idx = 0
    /\ walk = {}
    /\ trace = <<>>
    /\ fault = "none"
    /\ run = 0
    /\ start = NoValue
    /\ prev = NoValue
    /\ ret = NoValue

Returned(value) == [kind |-> "returned", value |-> value]

----------------------------------------------------------------------------
(* get_description on every README *)

InitDesc ==
    /\ Idle
    /\ pc = "call"
    /\ remote = GitMissing
    /\ \E readme \in Readmes : files = [NoFiles EXCEPT ![ReadmePath] = readme]

CallGetDescription ==
    /\ pc = "call"
    /\ ret' = Returned(get_description(files[ReadmePath]))
    /\ pc' = "returned"
    /\ UNCHANGED <<envVars, distVars, histVars, exit_code, packager,
                   file_specs, idx, walk>>

NextDesc == CallGetDescription

SpecDesc == InitDesc /\ [][NextDesc]_vars

----------------------------------------------------------------------------
(* get_github_url on every outcome of git *)

InitUrl ==
    /\ Idle
    /\ pc = "call"
    /\ files = NoFiles
    /\ remote \in Remotes

CallGetGithubUrl ==
    /\ pc = "call"
    /\ ret' = Returned(get_github_url(remote))
    /\ pc' = "returned"
    /\ UNCHANGED <<envVars, distVars, histVars, exit_code, packager,
                   file_specs, idx, walk>>

NextUrl == CallGetGithubUrl

SpecUrl == InitUrl /\ [][NextUrl]_vars

----------------------------------------------------------------------------
(* The script: main() *)

\* CsprojGetter.load_csproj returns the root
Loads(cs) == cs.kind = "xml"

\* CsprojGetter.retreive_csproj_element returns the text of the element
Retrieves(cs, field) ==
    /\ Loads(cs)
    /\ cs[field].kind = "element"
    /\ cs[field].text # <<>>

get_dll_name(cs) == dll_name_of(cs.AssemblyName.text[1])
get_dll_version(cs) == cs.Version.text[1]
get_mod_name(cs) == cs.Product.text[1]
get_dll_path(cs) == dll_path_of(cs.AssemblyName.text[1])

Event(op, name) == [op |-> op, name |-> name]

\* sys.exit(code)
Exit(code) ==
    /\ pc' = "done"
    /\ exit_code' = code

Snapshot ==
    [kind |-> "snapshot", manifest |-> files[ManifestPath], zips |-> zips,
     temps |-> temps, dist_exists |-> dist_exists]

Init ==
    /\ pc = "main"
    /\ exit_code = NoCode
    /\ csproj \in Csprojs
    /\ remote \in PipelineRemotes
    /\ \E manifest \in {NoFile, StaleManifest},
          icon \in {NoFile, Binary("icon")},
          readme \in PipelineReadmes,
          changelog \in {NoFile, Binary("changelog")} :
          files \in {[p \in Paths |->
                        IF p = ManifestPath THEN manifest
                        ELSE IF p = IconPath THEN icon
                        ELSE IF p = ReadmePath THEN readme
                        ELSE IF p = ChangelogPath THEN changelog
                        ELSE dll] : dll \in {NoFile, Binary("dll")}}
    /\ dist_exists \in BOOLEAN
    /\ zips \in [ZipNames -> {NoFile, Zip(StaleEntries, TRUE)}]
    /\ temps \in {NoTemps, [NoTemps EXCEPT !["20240101000000"] = Dir(StaleEntries)]}
    /\ ~dist_exists => zips = NoZips /\ temps = NoTemps
    /\ packager = NoValue
    /\ file_specs = <<>>
    /\ idx = 0
    /\ walk = {}
    /\ trace = <<>>
    /\ fault = "none"
    /\ run = 1
    /\ start = Snapshot
    /\ prev = NoValue
    /\ ret = NoValue

\* what build_manifest needs of the .csproj, in the order it asks
ManifestFields == <<"Product", "Version">>

\* BuildManifestExit as it would be with sys.exit() in place of sys.exit(1)
BuildManifestExitsZero ==
    /\ pc = "main"
    /\ \E i \in 1..Len(ManifestFields) : ~Retrieves(csproj, ManifestFields[i])
    /\ Exit(0)
    /\ UNCHANGED <<envVars, distVars, histVars, packager, file_specs, idx,
                   walk, ret>>

\* BuildManifestExit as it would be with manifest.json opened for writing
\* before the fields are retrieved
BuildManifestExitTruncates ==
    /\ pc = "main"
    /\ \E i \in 1..Len(ManifestFields) : ~Retrieves(csproj, ManifestFields[i])
    /\ files' = [files EXCEPT ![ManifestPath] = Text(<<>>)]
    /\ Exit(1)
    /\ UNCHANGED <<csproj, remote, distVars, histVars, packager, file_specs,
                   idx, walk, ret>>

\* build_manifest: a field of the .csproj cannot be retrieved
BuildManifestExit ==
    /\ pc = "main"
    /\ \E i \in 1..Len(ManifestFields) : ~Retrieves(csproj, ManifestFields[i])
    /\ Exit(1)
    /\ UNCHANGED <<envVars, distVars, histVars, packager, file_specs, idx,
                   walk, ret>>

manifest_dict ==
    [name |-> <<get_mod_name(csproj)>>,
     description |-> get_description(files[ReadmePath]),
     version_number |-> <<get_dll_version(csproj)>>,
     website_url |-> get_github_url(remote),
     dependencies |-> <<"BepInEx-BepInExPack-5.4.2100">>]

\* BuildManifest as it would be with manifest.json opened in mode "a"
BuildManifestAppends ==
    /\ pc = "main"
    /\ \A i \in 1..Len(ManifestFields) : Retrieves(csproj, ManifestFields[i])
    /\ files' = [files EXCEPT ![ManifestPath] =
                     IF @ = NoFile THEN Json(manifest_dict)
                     ELSE [kind |-> "appended", to |-> @, obj |-> manifest_dict]]
    /\ trace' = Append(trace, Event("write", ManifestName))
    /\ pc' = "packager"
    /\ UNCHANGED <<csproj, remote, distVars, exit_code, packager, file_specs,
                   idx, walk, fault, run, start, prev, ret>>

\* build_manifest: manifest.json is written
BuildManifest ==
    /\ pc = "main"
    /\ \A i \in 1..Len(ManifestFields) : Retrieves(csproj, ManifestFields[i])
    /\ files' = [files EXCEPT ![ManifestPath] = Json(manifest_dict)]
    /\ trace' = Append(trace, Event("write", ManifestName))
    /\ pc' = "packager"
    /\ UNCHANGED <<csproj, remote, distVars, exit_code, packager, file_specs,
                   idx, walk, fault, run, start, prev, ret>>

\* what FilePackager.__init__ needs of the .csproj, in the order it asks
PackagerFields == <<"AssemblyName", "AssemblyName", "Product", "Version">>

\* FilePackager.__init__: a field of the .csproj cannot be retrieved
PackagerInitExit ==
    /\ pc = "packager"
    /\ \E i \in 1..Len(PackagerFields) : ~Retrieves(csproj, PackagerFields[i])
    /\ Exit(1)
    /\ UNCHANGED <<envVars, distVars, histVars, packager, file_specs, idx,
                   walk, ret>>

\* FilePackager.__init__
PackagerInit ==
    /\ pc = "packager"
    /\ \A i \in 1..Len(PackagerFields) : Retrieves(csproj, PackagerFields[i])
    /\ \E timestamp \in Stamps :
          packager' =
              [kind |-> "packager",
               dll_name |-> get_dll_name(csproj),
               dll_source_path |-> get_dll_path(csproj),
               temp_dir |-> timestamp,
               zip_file_name |->
                   zip_file_name_of(get_mod_name(csproj), get_dll_version(csproj))]
    /\ pc' = "prepare"
    /\ UNCHANGED <<envVars, distVars, histVars, exit_code, file_specs, idx,
                   walk, ret>>

\* shutil.rmtree(self.temp_dir)
RmTemp == [temps EXCEPT ![packager.temp_dir] = NoDir]

TempExists == temps[packager.temp_dir] # NoDir

\* Prepare as it would be with mkdir(exist_ok=True) in place of the rmtree
PrepareKeepsExisting ==
    /\ pc = "prepare"
    /\ dist_exists' = TRUE
    /\ temps' = IF TempExists THEN temps
                ELSE [temps EXCEPT ![packager.temp_dir] = Dir(NoEntries)]
    /\ file_specs' =
           Append(DEFAULT_FILESPEC,
                  FileSpec(packager.dll_source_path, TRUE, packager.dll_name))
    /\ idx' = 1
    /\ trace' = Append(trace, Event("mkdir", <<>>))
    /\ pc' = "copy"
    /\ UNCHANGED <<envVars, zips, exit_code, packager, walk, fault, run,
                   start, prev, ret>>

\* FilePackager.prepare_file_spec
Prepare ==
    /\ pc = "prepare"
    /\ dist_exists' = TRUE
    /\ temps' = [temps EXCEPT ![packager.temp_dir] = Dir(NoEntries)]
    /\ file_specs' =
           Append(DEFAULT_FILESPEC,
                  FileSpec(packager.dll_source_path, TRUE, packager.dll_name))
    /\ idx' = 1
    /\ trace' = (IF TempExists THEN Append(trace, Event("rmtree", <<>>))
                 ELSE trace) \o <<Event("mkdir", <<>>)>>
    /\ pc' = "copy"
    /\ UNCHANGED <<envVars, zips, exit_code, packager, walk, fault, run,
                   start, prev, ret>>

Copying == pc = "copy" /\ idx \in 1..Len(file_specs)

Exists(path) == files[path] # NoFile

destination_name(file_spec) ==
    IF file_spec.rename_to # None THEN file_spec.rename_to
    ELSE Name(file_spec.path)

\* copy_files: the file exists and is copied
CopyFile ==
    /\ Copying
    /\ Exists(file_specs[idx].path)
    /\ temps' = [temps EXCEPT ![packager.temp_dir].entries
                     [destination_name(file_specs[idx])] =
                         files[file_specs[idx].path]]
    /\ trace' = Append(trace, Event("copy", destination_name(file_specs[idx])))
    /\ idx' = idx + 1
    /\ UNCHANGED <<envVars, dist_exists, zips, pc, exit_code, packager,
                   file_specs, walk, fault, run, start, prev, ret>>

\* copy_files: shutil.copy raises
CopyError ==
    /\ Copying
    /\ Exists(file_specs[idx].path)
    /\ fault' = "copy"
    /\ temps' = RmTemp
    /\ trace' = Append(trace, Event("rmtree", <<>>))
    /\ Exit(1)
    /\ UNCHANGED <<envVars, dist_exists, zips, packager, file_specs, idx,
                   walk, run, start, prev, ret>>

\* CopyMissingRequired as it would be without its shutil.rmtree
CopyMissingRequiredLeavesTemp ==
    /\ Copying
    /\ ~Exists(file_specs[idx].path)
    /\ file_specs[idx].required
    /\ Exit(1)
    /\ UNCHANGED <<envVars, distVars, packager, file_specs, idx, walk,
                   histVars, ret>>

\* copy_files: a required file does not exist
CopyMissingRequired ==
    /\ Copying
    /\ ~Exists(file_specs[idx].path)
    /\ file_specs[idx].required
    /\ temps' = RmTemp
    /\ trace' = Append(trace, Event("rmtree", <<>>))
    /\ Exit(1)
    /\ UNCHANGED <<envVars, dist_exists, zips, packager, file_specs, idx,
                   walk, fault, run, start, prev, ret>>

\* CopySkipOptional as it would be if `required` were not looked at
CopySkipOptionalAborts ==
    /\ Copying
    /\ ~Exists(file_specs[idx].path)
    /\ ~file_specs[idx].required
    /\ temps' = RmTemp
    /\ trace' = Append(trace, Event("rmtree", <<>>))
    /\ Exit(1)
    /\ UNCHANGED <<envVars, dist_exists, zips, packager, file_specs, idx,
                   walk, fault, run, start, prev, ret>>

\* copy_files: an optional file does not exist
CopySkipOptional ==
    /\ Copying
    /\ ~Exists(file_specs[idx].path)
    /\ ~file_specs[idx].required
    /\ trace' = Append(trace, Event("skip", Name(file_specs[idx].path)))
    /\ idx' = idx + 1
    /\ UNCHANGED <<envVars, distVars, pc, exit_code, packager, file_specs,
                   walk, fault, run, start, prev, ret>>

Staged == temps[packager.temp_dir].entries

\* ZipOpen as it would be with mode "a" in place of "w"
ZipOpenAppends ==
    /\ pc = "copy"
    /\ idx = Len(file_specs) + 1
    /\ zips' = [zips EXCEPT ![packager.zip_file_name] =
                    IF @ = NoFile THEN Zip(NoEntries, FALSE)
                    ELSE Zip(@.entries, FALSE)]
    /\ walk' = {n \in EntryNames : Staged[n] # NoFile}
    /\ trace' = Append(trace, Event("open", <<>>))
    /\ pc' = "zip"
    /\ UNCHANGED <<envVars, dist_exists, temps, exit_code, packager,
                   file_specs, idx, fault, run, start, prev, ret>>

\* zip_files: zipfile.ZipFile(self.zip_file_name, "w") and the start of os.walk
ZipOpen ==
    /\ pc = "copy"
    /\ idx = Len(file_specs) + 1
    /\ zips' = [zips EXCEPT ![packager.zip_file_name] = Zip(NoEntries, FALSE)]
    /\ walk' = {n \in EntryNames : Staged[n] # NoFile}
    /\ trace' = Append(trace, Event("open", <<>>))
    /\ pc' = "zip"
    /\ UNCHANGED <<envVars, dist_exists, temps, exit_code, packager,
                   file_specs, idx, fault, run, start, prev, ret>>

\* zip_files: zipfile.ZipFile(...) raises; the finally block runs
ZipOpenError ==
    /\ pc = "copy"
    /\ idx = Len(file_specs) + 1
    /\ fault' = "zip"
    /\ temps' = RmTemp
    /\ trace' = Append(trace, Event("rmtree", <<>>))
    /\ Exit(1)
    /\ UNCHANGED <<envVars, dist_exists, zips, packager, file_specs, idx,
                   walk, run, start, prev, ret>>

\* zip_files: zf.write(file_path, arcname) for the next file of the walk
ZipWrite ==
    /\ pc = "zip"
    /\ \E file \in walk :
          /\ zips' = [zips EXCEPT ![packager.zip_file_name].entries[file] =
                          Staged[file]]
          /\ walk' = walk \ {file}
    /\ UNCHANGED <<envVars, dist_exists, temps, pc, exit_code, packager,
                   file_specs, idx, histVars, ret>>

\* ZipWriteError as it would be with the rmtree after the try statement
\* in place of its finally block
ZipWriteErrorLeavesTemp ==
    /\ pc = "zip"
    /\ fault' = "zip"
    /\ zips' = [zips EXCEPT ![packager.zip_file_name].closed = TRUE]
    /\ Exit(1)
    /\ UNCHANGED <<envVars, dist_exists, temps, packager, file_specs, idx,
                   walk, trace, run, start, prev, ret>>

\* zip_files: the walk, a write or the close raises; the with block closes
\* the archive with what it holds and the finally block runs
ZipWriteError ==
    /\ pc = "zip"
    /\ fault' = "zip"
    /\ zips' = [zips EXCEPT ![packager.zip_file_name].closed = TRUE]
    /\ temps' = RmTemp
    /\ trace' = Append(trace, Event("rmtree", <<>>))
    /\ Exit(1)
    /\ UNCHANGED <<envVars, dist_exists, packager, file_specs, idx, walk,
                   run, start, prev, ret>>

\* zip_files: every file is written; the archive is closed, the finally
\* block runs and main returns
ZipClose ==
    /\ pc = "zip"
    /\ walk = {}
    /\ zips' = [zips EXCEPT ![packager.zip_file_name].closed = TRUE]
    /\ temps' = RmTemp
    /\ trace' = Append(trace, Event("rmtree", <<>>))
    /\ Exit(0)
    /\ UNCHANGED <<envVars, dist_exists, packager, file_specs, idx, walk,
                   fault, run, start, prev, ret>>

\* the script is run again, on what the successful run before left
RunAgain ==
    /\ pc = "done"
    /\ exit_code = 0
    /\ run < MaxRuns
    /\ prev' = [kind |-> "ended", exit_code |-> exit_code, trace |-> trace,
                manifest |-> files[ManifestPath], zips |-> zips]
    /\ start' = Snapshot
    /\ run' = run + 1
    /\ pc' = "main"
    /\ exit_code' = NoCode
    /\ packager' = NoValue
    /\ file_specs' = <<>>
    /\ idx' = 0
    /\ walk' = {}
    /\ trace' = <<>>
    /\ fault' = "none"
    /\ UNCHANGED <<envVars, distVars, ret>>

Next ==
    \/ BuildManifestExit
    \/ BuildManifest
    \/ PackagerInitExit
    \/ PackagerInit
    \/ Prepare
    \/ CopyFile
    \/ CopyError
    \/ CopyMissingRequired
    \/ CopySkipOptional
    \/ ZipOpen
    \/ ZipOpenError
    \/ ZipWrite
    \/ ZipWriteError
    \/ ZipClose
    \/ RunAgain

Spec == Init /\ [][Next]_vars

----------------------------------------------------------------------------
(* C5, C6 *)

IsHeading(line) == StartsWith(line, <<"#">>)

Min(S) == CHOOSE x \in S : \A y \in S : x <= y

StrippedLines(lines) == [i \in 1..Len(lines) |-> Strip(lines[i])]

NonEmpty(s) == s # <<>>

\* the lines after the first Summary heading and before the next heading
SummarySection(lines) ==
    LET summaries == {i \in 1..Len(lines) : SummaryHeaderMatch(lines[i])}
        h == Min(summaries)
        later == {j \in (h + 1)..Len(lines) : IsHeading(lines[j])}
        n == IF later = {} THEN Len(lines) + 1 ELSE Min(later)
    IN  IF summaries = {} THEN <<>> ELSE SubSeq(lines, h + 1, n - 1)

ClaimedDescription(readme) ==
    IF readme.kind = "text"
    THEN Join(SelectSeq(StrippedLines(SummarySection(readme.lines)), NonEmpty))
    ELSE <<>>

ExampleReadme ==
    Text(<< <<"#", "#", " ", "Summary">>, <<"Line one.">>, <<"\n">>,
            <<" ", "Line two.", " ", "\n">>, <<"#", "#", " ", "Next">> >>)

\* C5: get_description returns the non-empty, trimmed lines that follow the
\* first Summary heading, up to but not including the next heading of any
\* level, joined with single spaces, and the empty string when there is no
\* Summary heading or no README; the example README yields
\* "Line one. Line two.".
C5_DescriptionIsFirstSummarySection ==
    pc = "returned" =>
        /\ ret.value = ClaimedDescription(files[ReadmePath])
        /\ files[ReadmePath] = ExampleReadme =>
               ret.value = <<"Line one.", " ", "Line two.">>

ClaimedUrl(process) ==
    IF process.kind = "ran" /\ process.returncode = 0
    THEN LET url == Strip(process.stdout) IN
         IF StartsWith(url, HttpsPrefix) THEN url
         ELSE IF StartsWith(url, SshPrefix)
              THEN HttpsPrefix \o SubSeq(url, Len(SshPrefix) + 1, Len(url))
              ELSE <<>>
    ELSE <<>>

\* C6: get_github_url returns an https://github.com/ URL unchanged, an SSH
\* URL with only its leading git@github.com: replaced by https://github.com/,
\* and the empty string for any other URL, a non-zero exit of git or no git;
\* the process goes on in every case.
C6_UrlOnlyLeadingPrefixRewritten ==
    pc = "returned" =>
        /\ ret.value = ClaimedUrl(remote)
        /\ exit_code = NoCode

----------------------------------------------------------------------------
(* C1 - C4, C7 - C10 *)

Done == pc = "done"

\* the process got as far as FilePackager.__init__ returning
HasPackager == packager # NoValue

Archive == zips[packager.zip_file_name]

\* copy_files has returned and zip_files has been called
ArchivePhaseStarted == file_specs # <<>> /\ idx = Len(file_specs) + 1

MissingRequiredAt(i) ==
    /\ i \in 1..Len(file_specs)
    /\ file_specs[i].required
    /\ files[file_specs[i].path] = NoFile

\* C1: when the Copy phase reaches a required file spec whose file does not
\* exist, the run goes no further than that spec, ends with a non-zero exit
\* code, and the staging directory does not exist when the process has ended.
C1_MissingRequiredAborts ==
    \A i \in 1..Len(file_specs) :
        MissingRequiredAt(i) =>
            /\ idx <= i
            /\ idx = i => pc \in {"copy", "done"}
            /\ (Done /\ idx = i) =>
                   /\ exit_code = 1
                   /\ temps[packager.temp_dir] = NoDir

C1_Witness ==
    /\ Done
    /\ exit_code = 1
    /\ MissingRequiredAt(idx)
    /\ file_specs[idx].path = IconPath
    /\ trace[Len(trace)] = Event("rmtree", <<>>)

\* the canonical name of the build artifact: AssemblyName + ".dll"
ArtifactName ==
    IF csproj.kind = "xml" /\ csproj.AssemblyName.kind = "element"
       /\ csproj.AssemblyName.text # <<>>
    THEN <<csproj.AssemblyName.text[1], ".dll">>
    ELSE <<>>

\* what the claim says the archive holds, from the files of the project
ClaimedEntries ==
    [n \in EntryNames |->
        IF n = ManifestName THEN files[ManifestPath]
        ELSE IF n = IconName THEN files[IconPath]
        ELSE IF n = ReadmeName THEN files[ReadmePath]
        ELSE IF n = ChangelogName THEN files[ChangelogPath]
        ELSE IF n = ArtifactName
             THEN files[DLL_SOURCE_FOLDER \o <<n>>]
        ELSE NoFile]

RequiredEntryNames ==
    {ManifestName, IconName, ReadmeName, ArtifactName}

\* C2: after a successful run the archive holds exactly the manifest, the icon
\* as icon.png, the readme, the changelog if and only if CHANGELOG.md exists,
\* and the build artifact as <AssemblyName>.dll; nothing else and nothing
\* required missing, whatever dist/ held before.
C2_ArchiveEntriesExact ==
    (Done /\ exit_code = 0) =>
        /\ Archive # NoFile
        /\ Archive.closed
        /\ Archive.entries = ClaimedEntries
        /\ \A n \in RequiredEntryNames : Archive.entries[n] # NoFile
        /\ Archive.entries[ChangelogName] # NoFile <=> files[ChangelogPath] # NoFile

C2_Witness ==
    /\ Done
    /\ exit_code = 0
    /\ files[ChangelogPath] = NoFile
    /\ start.zips[packager.zip_file_name] = Zip(StaleEntries, TRUE)
    /\ start.temps[packager.temp_dir] = Dir(StaleEntries)
    /\ Archive.entries = ClaimedEntries

\* C3: once zip_files has been called the staging directory is gone when the
\* process has ended, whether the archive was written completely or its
\* creation failed at any point, and a failure ends with exit code 1.
C3_StagingRemovedAfterArchive ==
    (Done /\ ArchivePhaseStarted) =>
        /\ temps[packager.temp_dir] = NoDir
        /\ fault = "zip" => exit_code = 1
        /\ fault = "none" => exit_code = 0 /\ walk = {}

C3_Witness ==
    /\ Done
    /\ ArchivePhaseStarted
    /\ fault = "zip"
    /\ walk # {}
    /\ \E n \in EntryNames : Archive.entries[n] # NoFile
    /\ temps[packager.temp_dir] = NoDir

FieldMissing(field) ==
    csproj.kind = "xml" /\ csproj[field] \in {Absent, Element(<<>>)}

RequiredFileMissing ==
    \/ files[IconPath] = NoFile
    \/ files[ReadmePath] = NoFile
    \/ \E a \in AssemblyNames :
          /\ csproj.kind = "xml"
          /\ csproj.AssemblyName = Element(<<a>>)
          /\ files[DLL_SOURCE_FOLDER \o << <<a, ".dll">> >>] = NoFile

\* one of the fatal conditions of the claim holds of this run
Fatal ==
    \/ csproj.kind # "xml"
    \/ \E f \in Fields : FieldMissing(f)
    \/ RequiredFileMissing
    \/ fault # "none"

\* C4: the exit code is 0 on full success (manifest written and archive
\* written completely) and 1 on every fatal condition: .csproj not parsed, a
\* required field absent or empty, a required file missing, an error while
\* copying, an error while creating the archive.
C4_ExitCodes ==
    Done =>
        /\ exit_code \in {0, 1}
        /\ Fatal => exit_code = 1
        /\ ~Fatal => exit_code = 0
        /\ exit_code = 0 =>
               /\ trace # <<>> /\ trace[1] = Event("write", ManifestName)
               /\ files[ManifestPath].kind = "json"
               /\ Archive.closed /\ walk = {}

C4_Witness ==
    /\ Done
    /\ exit_code = 1
    /\ csproj.kind = "xml"
    /\ csproj.AssemblyName = Element(<<>>)
    /\ fault = "none"
    /\ ~RequiredFileMissing

\* C7: a second successful run after a successful run, on the same inputs,
\* leaves an archive with the same entries and contents, and the manifest a
\* run writes is the one the run before wrote.
C7_SecondRunSameResult ==
    (Done /\ run > 1) =>
        /\ (exit_code = 0 /\ prev.exit_code = 0) => zips = prev.zips
        /\ (trace # <<>> /\ prev.trace # <<>>) =>
               files[ManifestPath] = prev.manifest

C7_Witness ==
    /\ Done
    /\ run = 2
    /\ exit_code = 0
    /\ prev.exit_code = 0
    /\ Archive.entries[IconName] = Binary("icon")
    /\ zips = prev.zips

Unresolvable(process) ==
    \/ process.kind # "ran"
    \/ process.returncode # 0
    \/ /\ ~StartsWith(Strip(process.stdout), HttpsPrefix)
       /\ ~StartsWith(Strip(process.stdout), SshPrefix)

LacksSummary(readme) ==
    \A i \in 1..Len(readme.lines) : ~SummaryHeaderMatch(readme.lines[i])

\* C8: a missing CHANGELOG.md, a repository URL that cannot be resolved and a
\* README without a Summary section do not stop the run: with nothing fatal
\* the run ends with exit code 0, the changelog is not in the archive and the
\* manifest has "" as website_url, as description.
C8_AdvisoryConditionsNotFatal ==
    (Done /\ ~Fatal) =>
        /\ exit_code = 0
        /\ Archive.closed
        /\ files[ChangelogPath] = NoFile =>
               Archive.entries[ChangelogName] = NoFile
        /\ Unresolvable(remote) =>
               /\ files[ManifestPath].obj.website_url = <<>>
               /\ Archive.entries[ManifestName].obj.website_url = <<>>
        /\ LacksSummary(files[ReadmePath]) =>
               /\ files[ManifestPath].obj.description = <<>>
               /\ Archive.entries[ManifestName].obj.description = <<>>

C8_Witness ==
    /\ Done
    /\ exit_code = 0
    /\ files[ChangelogPath] = NoFile
    /\ Unresolvable(remote)
    /\ LacksSummary(files[ReadmePath])
    /\ Archive.entries[ManifestName].obj.website_url = <<>>

\* the steps of a run in the order the claim gives, the file specs by the
\* name they are staged under
ClaimedSpecOrder ==
    <<ManifestName, IconName, ReadmeName, ChangelogName, ArtifactName>>

Copy(name) == Event("copy", name)

\* every step of a run, each file spec as a copy
ClaimedOrder ==
    <<Event("write", ManifestName), Event("mkdir", <<>>)>>
        \o [i \in 1..Len(ClaimedSpecOrder) |-> Copy(ClaimedSpecOrder[i])]
        \o <<Event("open", <<>>)>>

IsRmtree(e) == e.op = "rmtree"
NotRmtree(e) == ~IsRmtree(e)

\* the steps of this run, the removals of the staging directory left out
Steps == SelectSeq(trace, NotRmtree)

\* step e is step c, or the skip of the file spec that c copies
StepIs(e, c) == e = c \/ (c.op = "copy" /\ e = Event("skip", c.name))

\* C9: the steps of a run occur in one fixed order without repetition: the
\* manifest is written, then the staging directory is created empty, then
\* the file specs are processed in list order, none after a missing required
\* one, and the archive is opened only after all of them; the manifest staged
\* and archived is the one this run wrote.
C9_FixedOrder ==
    /\ Len(Steps) <= Len(ClaimedOrder)
    /\ \A k \in 1..Len(Steps) : StepIs(Steps[k], ClaimedOrder[k])
    /\ (pc = "copy" /\ idx = 1) => Staged = NoEntries
    /\ pc \in {"copy", "zip"} =>
          /\ Len(Steps) = idx + 1 + (IF pc = "zip" THEN 1 ELSE 0)
          /\ \A n \in EntryNames : Staged[n] # NoFile =>
                \E k \in 3..Len(Steps) : Steps[k] = Event("copy", n)
          /\ \A i \in 1..(idx - 1) : ~MissingRequiredAt(i)
          /\ Staged[ManifestName] \in {NoFile, Json(manifest_dict)}
    /\ (HasPackager /\ Len(Steps) = Len(ClaimedOrder)) =>
          Archive.entries[ManifestName] \in {NoFile, Json(manifest_dict)}

C9_Witness ==
    /\ Done
    /\ exit_code = 0
    /\ Len(Steps) = Len(ClaimedOrder)
    /\ Steps[6] = Event("skip", ChangelogName)
    /\ Archive.entries[ManifestName] = Json(manifest_dict)
    /\ start.manifest = StaleManifest

\* the run ended in build_manifest
AbortedInBuildManifest == Done /\ ~HasPackager /\ trace = <<>>

\* C10: a run that aborts before the Archive phase leaves every archive as
\* it was; a run that aborts in build_manifest also leaves manifest.json as
\* it was and creates no staging directory.
C10_AbortLeavesArchive ==
    /\ (Done /\ ~ArchivePhaseStarted) =>
           /\ exit_code = 1
           /\ zips = start.zips
    /\ AbortedInBuildManifest =>
           /\ files[ManifestPath] = start.manifest
           /\ temps = start.temps
           /\ dist_exists = start.dist_exists
    /\ (Done /\ (~Loads(csproj) \/ FieldMissing("Product")
                 \/ FieldMissing("Version"))) => AbortedInBuildManifest

C10_Witness ==
    /\ AbortedInBuildManifest
    /\ start.manifest = StaleManifest
    /\ start.zips # NoZips
    /\ FieldMissing("Version")

====
